---- MODULE Spec2Model ----
(***************************************************************************)
(* Model of the llama-stylist patch / style resolution pipeline:           *)
(* the Validator and Repairer (utils/validators.py), the deterministic     *)
(* transforms safe_patch and apply_style, the prompt builders, the         *)
(* LlamaClient with its local stub, and the two resolvers apply_patch and  *)
(* enrich_style.                                                           *)
(*                                                                         *)
(* Representation.  A text is a sequence of tokens (words, the double      *)
(* quote, the newline).  A JSON value carries a kind: "absent" (the key is *)
(* not in the mapping), "map" / "list" (the expected container) or "num"   *)
(* (a JSON number where a container was expected).  Numbers with a         *)
(* fractional part (speed, glow, fog, ambientLight) are kept in hundredths.*)
(***************************************************************************)
EXTENDS Integers, Sequences, FiniteSets, TLC

VARIABLES op, base, base0, arg, options, backend, pc, prompt, response,
          parsed, result, verdict, tag, shared, calls, rounds

vars == <<op, base, base0, arg, options, backend, pc, prompt, response,
          parsed, result, verdict, tag, shared, calls, rounds>>

(***************************************************************************)
(* Bounds of the model                                                     *)
(***************************************************************************)
\* an input document differs from the tests' make_base() in at most this many fields
MaxDefects == 1
\* a returned document is sent back as the next request at most this many times
MaxApplications == 3

(***************************************************************************)
(* Tokens and texts                                                        *)
(***************************************************************************)
ABSENT == "<absent>"
NoNum == -1
QUOTE == "\""
NL == "\n"
NOW == "<utc-now>"

AbsentText == <<ABSENT>>

\* str.lower() on one token
Lower(w) ==
  CASE w = "BLUE" -> "blue"
    [] w = "GO" -> "go"
    [] w = "CyberPunk" -> "cyberpunk"
    [] w = "Options:" -> "options:"
    [] OTHER -> w

LowerText(t) == [i \in 1..Len(t) |-> Lower(t[i])]

\* pairs <<k, w>>: keyword k occurs inside the longer word w
SubstrPairs == { <<"red", "bored">>, <<"gold", "goldfish">>, <<"quick", "quickly">> }

\* Python's `k in edit` for a one-word keyword k
HasWord(t, k) == \E i \in 1..Len(t) : t[i] = k \/ <<k, t[i]>> \in SubstrPairs

\* Python's `"a b" in edit` for a two-word phrase
HasPhrase(t, a, b) == \E i \in 1..(Len(t) - 1) : t[i] = a /\ t[i + 1] = b

RECURSIVE StripTrailingNL(_)
StripTrailingNL(t) ==
  IF t # <<>> /\ t[Len(t)] = NL THEN StripTrailingNL(SubSeq(t, 1, Len(t) - 1)) ELSE t

RECURSIVE StripLeadingNL(_)
StripLeadingNL(t) ==
  IF t # <<>> /\ t[1] = NL THEN StripLeadingNL(Tail(t)) ELSE t

(***************************************************************************)
(* JSON values                                                             *)
(***************************************************************************)
Styles == { <<"ethereal">>, <<"cyberpunk">>, <<"surreal">>, <<"fantasy">>, <<"nightmare">> }

AbsentEnv == [kind |-> "absent", preset |-> ABSENT, fog |-> NoNum,
              skyColor |-> ABSENT, ambientLight |-> NoNum]
EmptyEnv == [AbsentEnv EXCEPT !.kind = "map"]
NumEnv == [AbsentEnv EXCEPT !.kind = "num"]

AbsentList == [kind |-> "absent", items |-> <<>>]
EmptyList == [kind |-> "list", items |-> <<>>]
NumList == [kind |-> "num", items |-> <<>>]
ListOf(s) == [kind |-> "list", items |-> s]

AbsentParams == [kind |-> "absent", color |-> ABSENT, speed |-> NoNum, glow |-> NoNum]
EmptyParams == [AbsentParams EXCEPT !.kind = "map"]

AbsentCine == [kind |-> "absent", durationSec |-> NoNum, shots |-> AbsentList]
EmptyCine == [AbsentCine EXCEPT !.kind = "map"]
NumCine == [AbsentCine EXCEPT !.kind = "num"]

AbsentMeta == [kind |-> "absent", enrichedBy |-> ABSENT, targetStyle |-> AbsentText,
               author |-> ABSENT]

\* the empty JSON object {}
EmptyDoc ==
  [kind |-> "map", id |-> ABSENT, title |-> ABSENT, style |-> AbsentText, seed |-> NoNum,
   environment |-> AbsentEnv, structures |-> AbsentList, entities |-> AbsentList,
   cinematography |-> AbsentCine, assumptions |-> AbsentList,
   patchHistory |-> AbsentList, metadata |-> AbsentMeta,
   error |-> ABSENT, promptStart |-> ABSENT]

\* a JSON value that is not a mapping (a number)
NumDoc == [EmptyDoc EXCEPT !.kind = "num"]

MapShot(type, target, duration) ==
  [kind |-> "map", type |-> type, target |-> target, duration |-> duration]
NumShot == [kind |-> "num", type |-> ABSENT, target |-> ABSENT, duration |-> NoNum]

\* make_base() of tests/test_patch.py and tests/test_style.py
BaseStructure == [id |-> "s1", template |-> "floating_library", pos |-> <<0, 20, 0>>, scale |-> 100]
BaseEntity == [id |-> "e1", type |-> "book_swarm",
               params |-> [kind |-> "map", color |-> "#ffffff", speed |-> 100, glow |-> 70]]
BaseEnv == [kind |-> "map", preset |-> "dusk", fog |-> 30, skyColor |-> "#a6d8ff", ambientLight |-> 80]
BaseCine == [kind |-> "map", durationSec |-> 30,
             shots |-> ListOf(<<MapShot("establish", "s1", 30)>>)]
make_base ==
  [EmptyDoc EXCEPT !.id = "test1", !.title = "Test Dream", !.style = <<"ethereal">>,
                   !.seed = 42, !.environment = BaseEnv,
                   !.structures = ListOf(<<BaseStructure>>),
                   !.entities = ListOf(<<BaseEntity>>),
                   !.cinematography = BaseCine]

(***************************************************************************)
(* utils/validators.py : validate_dream                                    *)
(***************************************************************************)
REQUIRED_FIELDS == <<"id", "title", "style">>

\* `field in dream` for the three required fields
HasField(d, f) ==
  CASE f = "id" -> d.id # ABSENT
    [] f = "title" -> d.title # ABSENT
    [] f = "style" -> d.style # AbsentText

MissingErrors(d) ==
  LET miss == SelectSeq(REQUIRED_FIELDS, LAMBDA f : ~HasField(d, f))
  IN  [i \in 1..Len(miss) |-> <<"missing_required:", miss[i]>>]

StyleErrors(d) ==
  IF d.style # AbsentText /\ d.style \notin Styles
  THEN << <<"invalid_style:">> \o d.style >> ELSE <<>>

\* a shots check that forgets the empty sequence
ShotsOk_any_list(c) == c.shots.kind = "list"

ShotsOk(c) == c.shots.kind = "list" /\ Len(c.shots.items) # 0

CineErrors(d) ==
  LET c == d.cinematography IN
  IF c.kind = "absent" THEN <<>>
  ELSE IF c.kind # "map" THEN << <<"cinematography_not_object">> >>
  ELSE IF c.durationSec = NoNum \/ c.shots.kind = "absent"
       THEN << <<"cinematography_missing_duration_or_shots">> >>
  ELSE IF ~ShotsOk(c) THEN << <<"cinematography_shots_invalid">> >>
  ELSE <<>>

validate_dream(d) ==
  IF d.kind # "map" THEN [ok |-> FALSE, errors |-> << <<"dream must be an object">> >>]
  ELSE LET errs == MissingErrors(d) \o StyleErrors(d) \o CineErrors(d)
       IN  [ok |-> (Len(errs) = 0), errors |-> errs]

(***************************************************************************)
(* utils/validators.py : repair_dream                                      *)
(***************************************************************************)
\* repaired.get(key, []) if it is a list, else []
CoerceList(l) == IF l.kind = "list" THEN l ELSE EmptyList

\* repaired["structures"][0]["id"] raises KeyError when the first structure has no id
TargetRaises(structs) == Len(structs.items) > 0 /\ structs.items[1].id = ABSENT
ShotTarget(structs) == IF Len(structs.items) > 0 THEN structs.items[1].id ELSE "s1"

\* sum([s.get("duration", 0) for s in c.get("shots", [])]) raises on a non-iterable
\* shots value and on a shot that is not a mapping
SumRaises(shots) ==
  \/ shots.kind = "num"
  \/ shots.kind = "list" /\ \E i \in 1..Len(shots.items) : shots.items[i].kind # "map"

RECURSIVE SumDurations(_)
SumDurations(items) ==
  IF items = <<>> THEN 0
  ELSE (IF Head(items).duration = NoNum THEN 0 ELSE Head(items).duration)
       + SumDurations(Tail(items))

DefaultDuration == 30

DerivedDuration(shots) ==
  LET s == SumDurations(shots.items) IN IF s = 0 THEN DefaultDuration ELSE s

\* list.append on the value under an audit key: AttributeError unless it is a list
AppendRaises(l) == l.kind = "num"
ListAppend(l, x) == ListOf(l.items \o <<x>>)

RepairRaises(d) ==
  LET structs == CoerceList(d.structures)
      c == d.cinematography
  IN  \/ d.kind # "map"
      \/ c.kind # "map" /\ TargetRaises(structs)
      \/ c.kind = "map" /\ c.durationSec = NoNum /\ SumRaises(c.shots)
      \/ c.kind = "map" /\ ~ShotsOk(c) /\ TargetRaises(structs)
      \/ AppendRaises(d.assumptions)

\* a synthesized shot that always lasts the default duration
RepairCine_default_duration(c, structs) ==
  LET shot == ListOf(<<MapShot("establish", ShotTarget(structs), DefaultDuration)>>) IN
  IF c.kind # "map" THEN [kind |-> "map", durationSec |-> DefaultDuration, shots |-> shot]
  ELSE [kind |-> "map",
        durationSec |-> IF c.durationSec = NoNum THEN DerivedDuration(c.shots)
                        ELSE c.durationSec,
        shots |-> IF ShotsOk(c) THEN c.shots ELSE shot]

RepairCine(c, structs) ==
  IF c.kind # "map"
  THEN [kind |-> "map", durationSec |-> DefaultDuration,
        shots |-> ListOf(<<MapShot("establish", ShotTarget(structs), DefaultDuration)>>)]
  ELSE LET dur == IF c.durationSec = NoNum THEN DerivedDuration(c.shots) ELSE c.durationSec
       IN  [kind |-> "map", durationSec |-> dur,
            shots |-> IF ShotsOk(c) THEN c.shots
                      ELSE ListOf(<<MapShot("establish", ShotTarget(structs), dur)>>)]

repair_dream(d) ==
  LET structs == CoerceList(d.structures) IN
  [d EXCEPT !.id = IF d.id = ABSENT THEN "repaired_<ts>" ELSE d.id,
            !.title = IF d.title = ABSENT THEN "Repaired Dream" ELSE d.title,
            !.style = IF d.style \notin Styles THEN <<"ethereal">> ELSE d.style,
            !.structures = structs,
            !.entities = CoerceList(d.entities),
            !.cinematography = RepairCine(d.cinematography, structs),
            !.assumptions = ListAppend(d.assumptions, <<"auto_repaired_missing_fields">>)]

(***************************************************************************)
(* utils/validators.py : safe_patch                                        *)
(***************************************************************************)
ColorOrder == <<"red", "blue", "green", "yellow", "purple", "pink", "orange",
                "white", "black", "gold", "cyan">>

color_map(k) ==
  CASE k = "red" -> "#ff0000" [] k = "blue" -> "#0000ff" [] k = "green" -> "#00ff00"
    [] k = "yellow" -> "#ffff00" [] k = "purple" -> "#800080" [] k = "pink" -> "#ff69b4"
    [] k = "orange" -> "#ffa500" [] k = "white" -> "#ffffff" [] k = "black" -> "#000000"
    [] k = "gold" -> "#ffd700" [] k = "cyan" -> "#00ffff"

\* the colour keywords found in the lower-cased edit, in color_map order
ColorHits(edit) == SelectSeq(ColorOrder, LAMBDA k : HasWord(edit, k))

WantsIsland(edit) ==
  HasPhrase(edit, "add", "island") \/ (HasWord(edit, "add") /\ HasWord(edit, "island"))

WantsFaster(edit) ==
  HasWord(edit, "faster") \/ HasPhrase(edit, "speed", "up") \/ HasWord(edit, "quick")

\* patched.get("environment") is truthy
EnvTruthy(env) ==
  \/ env.kind = "num"
  \/ env.kind = "map" /\ (env.preset # ABSENT \/ env.fog # NoNum
                          \/ env.skyColor # ABSENT \/ env.ambientLight # NoNum)

\* e.setdefault("params", {})
ParamsOf(e) == IF e.params.kind = "absent" THEN EmptyParams ELSE e.params

SpeedCap == 1000

\* the multiplication without the cap
Faster_uncapped(p) ==
  [p EXCEPT !.speed = ((IF p.speed = NoNum THEN 100 ELSE p.speed) * 3) \div 2]

Faster(p) ==
  LET s == IF p.speed = NoNum THEN 100 ELSE p.speed
      n == (s * 3) \div 2
  IN  [p EXCEPT !.speed = IF n < SpeedCap THEN n ELSE SpeedCap]

PatchEntity(e, hits, fast) ==
  LET p0 == ParamsOf(e)
      p1 == IF Len(hits) > 0 THEN [p0 EXCEPT !.color = color_map(hits[Len(hits)])] ELSE p0
      p2 == IF fast THEN Faster(p1) ELSE p1
  IN  IF Len(hits) > 0 \/ fast THEN [e EXCEPT !.params = p2] ELSE e

PatchEntities(ents, hits, fast) ==
  IF ents.kind # "list" THEN ents
  ELSE ListOf([i \in 1..Len(ents.items) |-> PatchEntity(ents.items[i], hits, fast)])

PatchEnv(env, hits) ==
  IF Len(hits) > 0 /\ EnvTruthy(env)
  THEN [env EXCEPT !.skyColor = color_map(hits[Len(hits)])] ELSE env

Island == [id |-> "added_island_<ts>", template |-> "floating_island",
           pos |-> <<0, 15, 0>>, scale |-> 80]

\* the list `applied` of safe_patch
Applied(edit) ==
  LET hits == ColorHits(edit) IN
  [i \in 1..Len(hits) |-> <<"color:", hits[i]>>]
    \o (IF WantsIsland(edit) THEN << <<"added_island">> >> ELSE <<>>)
    \o (IF WantsFaster(edit) THEN << <<"increased_speed">> >> ELSE <<>>)

RECURSIVE JoinComma(_)
JoinComma(ts) ==
  IF ts = <<>> THEN <<>>
  ELSE IF Len(ts) = 1 THEN Head(ts)
  ELSE Head(ts) \o <<",">> \o JoinComma(Tail(ts))

\* a note that always lists the applied rules, also when none fired
PatchNote_always_summary(edit_text) ==
  <<"safe_patch_applied:">> \o JoinComma(Applied(LowerText(edit_text)))

PatchNote(edit_text) ==
  LET applied == Applied(LowerText(edit_text)) IN
  IF applied = <<>> THEN <<"Requested edit recorded:", QUOTE>> \o edit_text \o <<QUOTE>>
  ELSE <<"safe_patch_applied:">> \o JoinComma(applied)

HistoryEntry(edit_text, source) ==
  [editText |-> edit_text, appliedAt |-> NOW, source |-> source]

SafePatchRaises(d, edit_text) ==
  LET edit == LowerText(edit_text)
      hits == ColorHits(edit)
  IN  \/ d.kind # "map"
      \/ AppendRaises(d.assumptions)
      \/ Len(hits) > 0 /\ d.entities.kind = "num"
      \/ Len(hits) > 0 /\ d.environment.kind = "num"
      \/ WantsIsland(edit) /\ AppendRaises(d.structures)
      \/ WantsFaster(edit) /\ d.entities.kind = "num"
      \/ AppendRaises(d.patchHistory)

safe_patch(d, edit_text) ==
  LET edit == LowerText(edit_text)
      hits == ColorHits(edit)
  IN  [d EXCEPT !.entities = PatchEntities(d.entities, hits, WantsFaster(edit)),
                !.environment = PatchEnv(d.environment, hits),
                !.structures = IF WantsIsland(edit) THEN ListAppend(d.structures, Island)
                               ELSE d.structures,
                !.assumptions = ListAppend(d.assumptions, PatchNote(edit_text)),
                !.patchHistory = ListAppend(d.patchHistory, HistoryEntry(edit_text, "safe_patch"))]

(***************************************************************************)
(* main.py : stub_apply_patch, the randomized-position text-edit variant   *)
(***************************************************************************)
\* _ensure_lists: structures, entities and assumptions become [] unless lists
_ensure_lists(d) ==
  [d EXCEPT !.structures = CoerceList(@), !.entities = CoerceList(@),
            !.assumptions = CoerceList(@)]

WantsTower(edit) ==
  HasPhrase(edit, "add", "tower") \/ (HasWord(edit, "add") /\ HasWord(edit, "tower"))

WantsSlower(edit) ==
  HasWord(edit, "slower") \/ HasWord(edit, "calm") \/ HasWord(edit, "gentle")

StubPatchRaises(d, edit_text) ==
  \/ d.kind # "map"
  \/ Len(ColorHits(LowerText(edit_text))) > 0 /\ d.environment.kind = "num"
  \/ AppendRaises(d.patchHistory)

\* rnd holds the draws of random.uniform for an inserted structure's position,
\* already added to the fixed offsets
stub_apply_patch(d, edit_text, rnd) ==
  LET edit == LowerText(edit_text)
      hits == ColorHits(edit)
      p == _ensure_lists(d)
      \* max(0.01, speed * 0.7), the speed defaulting to 1.0
      Slower(q) ==
        LET s == IF q.speed = NoNum THEN 100 ELSE q.speed
            n == (s * 7) \div 10
        IN  [q EXCEPT !.speed = IF n > 1 THEN n ELSE 1]
      Entity(e) ==
        LET p0 == ParamsOf(e)
            p1 == IF Len(hits) > 0 THEN [p0 EXCEPT !.color = color_map(hits[Len(hits)])]
                  ELSE p0
            p2 == IF WantsFaster(edit) THEN Faster(p1) ELSE p1
            p3 == IF WantsSlower(edit) THEN Slower(p2) ELSE p2
        IN  IF Len(hits) > 0 \/ WantsFaster(edit) \/ WantsSlower(edit)
            THEN [e EXCEPT !.params = p3] ELSE e
      added ==
        (IF WantsIsland(edit)
         THEN <<[id |-> "added_island_<ts>", template |-> "floating_island",
                 pos |-> rnd.island, scale |-> 80]>> ELSE <<>>)
        \o (IF WantsTower(edit)
            THEN <<[id |-> "added_tower_<ts>", template |-> "crystal_tower",
                    pos |-> rnd.tower, scale |-> 110]>> ELSE <<>>)
      \* the list `applied` before the "recorded as assumption" entry
      applied ==
        [i \in 1..Len(hits) |-> <<"color ->", hits[i]>>]
          \o (IF WantsIsland(edit) THEN << <<"added floating_island">> >> ELSE <<>>)
          \o (IF WantsTower(edit) THEN << <<"added crystal_tower">> >> ELSE <<>>)
          \o (IF WantsFaster(edit) THEN << <<"increased speed">> >> ELSE <<>>)
          \o (IF WantsSlower(edit) THEN << <<"decreased speed">> >> ELSE <<>>)
      RECURSIVE Join(_)
      Join(ts) == IF ts = <<>> THEN <<>>
                  ELSE IF Len(ts) = 1 THEN Head(ts)
                  ELSE Head(ts) \o <<", ">> \o Join(Tail(ts))
      recorded == IF applied = <<>>
                  THEN << <<"Requested edit recorded:", QUOTE>> \o edit_text \o <<QUOTE>> >>
                  ELSE <<>>
      summary == <<"Stub patch applied:">>
                   \o Join(IF applied = <<>> THEN << <<"recorded as assumption">> >>
                           ELSE applied)
  IN  [p EXCEPT !.entities = ListOf([i \in 1..Len(p.entities.items) |->
                                       Entity(p.entities.items[i])]),
                !.environment = PatchEnv(d.environment, hits),
                !.structures = ListOf(p.structures.items \o added),
                !.patchHistory = ListAppend(d.patchHistory, HistoryEntry(edit_text, "stub")),
                !.assumptions = ListOf(p.assumptions.items \o recorded \o <<summary>>)]

(***************************************************************************)
(* utils/style_mapper.py                                                   *)
(***************************************************************************)
STYLE_CONFIGS(name) ==
  CASE name = <<"ethereal">> ->
         [environment |-> [preset |-> "dusk", fog |-> 40, skyColor |-> "#a6d8ff", ambientLight |-> 90],
          entityDefaults |-> [speed |-> 100, glow |-> 70, color |-> "#ffffff"]]
    [] name = <<"cyberpunk">> ->
         [environment |-> [preset |-> "night", fog |-> 20, skyColor |-> "#001133", ambientLight |-> 40],
          entityDefaults |-> [speed |-> 200, glow |-> 100, color |-> "#00ffff"]]
    [] name = <<"surreal">> ->
         [environment |-> [preset |-> "void", fog |-> 60, skyColor |-> "#2d1a4a", ambientLight |-> 60],
          entityDefaults |-> [speed |-> 150, glow |-> 90, color |-> "#ff0080"]]
    [] name = <<"fantasy">> ->
         [environment |-> [preset |-> "dawn", fog |-> 30, skyColor |-> "#ffb347", ambientLight |-> 110],
          entityDefaults |-> [speed |-> 80, glow |-> 60, color |-> "#ffd700"]]
    [] name = <<"nightmare">> ->
         [environment |-> [preset |-> "night", fog |-> 70, skyColor |-> "#1a0d1a", ambientLight |-> 20],
          entityDefaults |-> [speed |-> 60, glow |-> 30, color |-> "#800020"]]

get_style_config(style) ==
  IF LowerText(style) \in Styles THEN STYLE_CONFIGS(LowerText(style))
  ELSE STYLE_CONFIGS(<<"ethereal">>)

\* the style's glow added to 1.0 before multiplying
StyleEntity_glow_boost(e, cfg) ==
  LET p == ParamsOf(e)
      g == ((IF p.glow = NoNum THEN 50 ELSE p.glow) * (100 + cfg.entityDefaults.glow)) \div 100
  IN  [e EXCEPT !.params =
         [p EXCEPT !.color = cfg.entityDefaults.color,
                   !.glow = IF g < 100 THEN g ELSE 100,
                   !.speed = IF p.speed = NoNum THEN cfg.entityDefaults.speed ELSE p.speed]]

StyleEntity(e, cfg) ==
  LET p == ParamsOf(e)
      g == ((IF p.glow = NoNum THEN 50 ELSE p.glow) * cfg.entityDefaults.glow) \div 100
  IN  [e EXCEPT !.params =
         [p EXCEPT !.color = cfg.entityDefaults.color,
                   !.glow = IF g < 100 THEN g ELSE 100,
                   !.speed = IF p.speed = NoNum THEN cfg.entityDefaults.speed ELSE p.speed]]

ApplyStyleRaises(d, style) ==
  \/ d.kind # "map"
  \/ d.environment.kind = "num"
  \/ d.entities.kind = "num"
  \/ AppendRaises(d.assumptions)

apply_style(d, style) ==
  LET cfg == get_style_config(style) IN
  [d EXCEPT !.environment = [kind |-> "map", preset |-> cfg.environment.preset,
                             fog |-> cfg.environment.fog,
                             skyColor |-> cfg.environment.skyColor,
                             ambientLight |-> cfg.environment.ambientLight],
            !.style = style,
            !.entities = IF d.entities.kind # "list" THEN d.entities
                         ELSE ListOf([i \in 1..Len(d.entities.items) |->
                                        StyleEntity(d.entities.items[i], cfg)]),
            !.assumptions = ListAppend(d.assumptions,
                                   <<"Deterministic style mapping applied ->">> \o style)]

(***************************************************************************)
(* utils/json_parser.py : prompt builders and response parsing             *)
(*                                                                         *)
(* A prompt is kept as three pieces: the text before the embedded JSON     *)
(* block, the embedded document (json.dumps of a JSON value and json.loads *)
(* of that text give the value back), and the text after the block.        *)
(***************************************************************************)
OptionsJson(o) ==
  IF o = <<>> THEN <<"{}">>
  ELSE <<"{", QUOTE>> \o o \o <<QUOTE, ":", "800", "}">>

build_patch_prompt(base_json, edit_text, o) ==
  [head |-> <<"You are an assistant that modifies an existing Dream Scene JSON.",
              NL, NL, "Base Dream JSON:", NL>>,
   doc |-> base_json,
   tail |-> <<NL, NL, "Edit Instruction:", NL, QUOTE>> \o edit_text
            \o <<QUOTE, NL, NL, "Options:", NL>> \o OptionsJson(o)]

build_style_prompt(base_json, target_style, o) ==
  [head |-> <<"You are a style-enrichment assistant.", NL, NL, "Base Dream JSON:", NL>>,
   doc |-> base_json,
   tail |-> <<NL, NL, "Requested Style:", NL>> \o target_style
            \o <<NL, NL, "Options:", NL>> \o OptionsJson(o)]

NoPrompt == [head |-> <<>>, doc |-> EmptyDoc, tail |-> <<>>]

\* an optional JSON value
None == [some |-> FALSE, doc |-> EmptyDoc]
Some(d) == [some |-> TRUE, doc |-> d]

\* a backend response text: prose without braces, text with braces that is not
\* JSON, the JSON text of doc, or the JSON text of doc wrapped in prose
NoResponse == [shape |-> "none", doc |-> EmptyDoc]
JsonText(d) == [shape |-> "json", doc |-> d]
WrappedJson(d) == [shape |-> "wrapped", doc |-> d]
Prose == [shape |-> "prose", doc |-> EmptyDoc]
Malformed == [shape |-> "malformed", doc |-> EmptyDoc]

\* ---- response texts kept token by token ----
\* Tokens of such a text: the braces, the colon, the comma, a number, string
\* literals (also one holding an opening and one holding a closing brace) and
\* prose words.  White space between tokens is not kept.
Tok == [id |-> "\"id\"", title |-> "\"title\"", environment |-> "\"environment\"",
        x |-> "\"x\"", y |-> "\"y\"", open |-> "\"{\"", close |-> "\"}\""]
StringTokens == {Tok.x, Tok.y, Tok.open, Tok.close}

\* the value of a string literal
StringValue(tok) ==
  CASE tok = Tok.x -> "x" [] tok = Tok.y -> "y" [] tok = Tok.open -> "{" [] tok = Tok.close -> "}"

RawText(t) == [shape |-> "raw", doc |-> EmptyDoc, raw |-> t]

\* the token holds the character "{" / "}" (the scan looks at characters, also
\* those inside a string literal)
HasOpenBrace(tok) == tok \in {"{", Tok.open}
HasCloseBrace(tok) == tok \in {"}", Tok.close}

NoBlock == [some |-> FALSE, toks |-> <<>>]
Block(t, i, j) == [some |-> TRUE, toks |-> SubSeq(t, i, j)]

\* the for loop of _extract_first_json_block from position i on; start = 0 stands
\* for the code's -1
RECURSIVE DepthScan(_, _, _, _)
DepthScan(t, i, depth, start) ==
  IF i > Len(t) THEN NoBlock
  ELSE IF HasOpenBrace(t[i])
       THEN DepthScan(t, i + 1, depth + 1, IF start = 0 THEN i ELSE start)
  ELSE IF HasCloseBrace(t[i])
       THEN IF depth - 1 = 0 /\ start # 0 THEN Block(t, start, i)
            ELSE DepthScan(t, i + 1, depth - 1, start)
  ELSE DepthScan(t, i + 1, depth, start)

\* re.search(r"(\{[\s\S]*\})", text): from the first "{" to the last "}"
GreedyBraces(t) ==
  LET opens == { i \in 1..Len(t) : HasOpenBrace(t[i]) }
      closes == { i \in 1..Len(t) : HasCloseBrace(t[i]) }
  IN  IF opens = {} \/ closes = {} THEN NoBlock
      ELSE LET f == CHOOSE i \in opens : \A j \in opens : i <= j
               l == CHOOSE i \in closes : \A j \in closes : j <= i
           IN  IF f < l THEN Block(t, f, l) ELSE NoBlock

_extract_first_json_block(t) ==
  IF ~\E i \in 1..Len(t) : HasOpenBrace(t[i]) THEN NoBlock
  ELSE IF DepthScan(t, 1, 0, 0).some THEN DepthScan(t, 1, 0, 0)
  ELSE GreedyBraces(t)

\* json.loads of the members of an object, "key": value pairs separated by commas;
\* a later pair with the same key replaces the earlier one
RECURSIVE Members(_, _)
Members(s, d) ==
  LET more(r, dd) == IF r = <<>> THEN Some(dd)
                     ELSE IF Head(r) = "," /\ Len(r) > 1 THEN Members(Tail(r), dd)
                     ELSE None
  IN  IF Len(s) >= 3 /\ s[1] = Tok.id /\ s[2] = ":" /\ s[3] \in StringTokens
      THEN more(SubSeq(s, 4, Len(s)), [d EXCEPT !.id = StringValue(s[3])])
      ELSE IF Len(s) >= 3 /\ s[1] = Tok.title /\ s[2] = ":" /\ s[3] \in StringTokens
      THEN more(SubSeq(s, 4, Len(s)), [d EXCEPT !.title = StringValue(s[3])])
      ELSE IF Len(s) >= 4 /\ s[1] = Tok.environment /\ s[2] = ":" /\ s[3] = "{" /\ s[4] = "}"
      THEN more(SubSeq(s, 5, Len(s)), [d EXCEPT !.environment = EmptyEnv])
      ELSE None

\* json.loads of a token text: an object, or a lone number or string.  A block
\* that starts or ends at a brace inside a string literal is cut through that
\* literal and never parses: its first (last) token is not the plain brace.
json_loads(t) ==
  IF Len(t) = 1 /\ (t[1] = "5" \/ t[1] \in StringTokens) THEN Some(NumDoc)
  ELSE IF Len(t) >= 2 /\ t[1] = "{" /\ t[Len(t)] = "}"
       THEN IF Len(t) = 2 THEN Some(EmptyDoc)
            ELSE Members(SubSeq(t, 2, Len(t) - 1), EmptyDoc)
  ELSE None

\* re.sub(r",\s*([}\]])", r"\1", block)
RECURSIVE TidyCommas(_)
TidyCommas(t) ==
  IF t = <<>> THEN <<>>
  ELSE IF Head(t) = "," /\ Len(t) > 1 /\ t[2] = "}" THEN TidyCommas(Tail(t))
  ELSE <<Head(t)>> \o TidyCommas(Tail(t))

\* extract_json_from_text: a text kept token by token is scanned and parsed; of
\* the other texts the first balanced {...} block parses only when a JSON object
\* is in the text
extract_json_from_text(text) ==
  IF text.shape = "raw"
  THEN LET block == _extract_first_json_block(text.raw) IN
       IF ~block.some THEN None
       ELSE IF json_loads(block.toks).some THEN json_loads(block.toks)
       ELSE json_loads(TidyCommas(block.toks))
  ELSE IF text.shape \in {"json", "wrapped"} /\ text.doc.kind = "map" THEN Some(text.doc)
  ELSE None

\* json.loads of the whole text
parse_json_or_none(text) ==
  IF text.shape = "raw" THEN (IF text.raw = <<>> THEN None ELSE json_loads(text.raw))
  ELSE IF text.shape = "json" THEN Some(text.doc) ELSE None

\* Python truthiness of an optional JSON value: None and {} are falsy
Truthy(v) == v.some /\ v.doc # EmptyDoc
IsDict(v) == v.some /\ v.doc.kind = "map"

(***************************************************************************)
(* services/llama-wrapper.py : LlamaClient                                 *)
(***************************************************************************)
Markers == {"Edit Instruction:", "Requested Style:"}

StartsWithMarker(t) == StripLeadingNL(t) # <<>> /\ Head(StripLeadingNL(t)) \in Markers

\* re.search(r"Base Dream JSON:\s*(\{[\s\S]*\})\s*(?:Edit Instruction:|Requested Style:)"):
\* the greedy group runs from the first "{" to the last "}" that a marker follows,
\* and json.loads gives the document only when that is the end of the embedded block
BaseMatch(p) ==
  IF /\ \E i \in 1..Len(p.head) : p.head[i] = "Base Dream JSON:"
     /\ p.doc.kind = "map"
     /\ StartsWithMarker(p.tail)
     /\ ~\E i \in 1..Len(p.tail) :
           /\ p.tail[i] \in {"}", "{}"}
           /\ StartsWithMarker(SubSeq(p.tail, i + 1, Len(p.tail)))
  THEN Some(p.doc) ELSE None

DropQuoteFront(t) == IF t # <<>> /\ Head(t) = QUOTE THEN Tail(t) ELSE t
DropQuoteBack(t) == IF t # <<>> /\ t[Len(t)] = QUOTE THEN SubSeq(t, 1, Len(t) - 1) ELSE t

\* the text after position i, past \s* and an optional quote
AfterMarker(t, i) == DropQuoteFront(StripLeadingNL(SubSeq(t, i + 1, Len(t))))

\* re.search(marker + r"\s*\"?([^\n\"].*?)\"?\s*$", prompt, re.DOTALL): the positions
\* of the marker at which the pattern matches
MatchAt(t, marker) ==
  { i \in 1..Len(t) : /\ t[i] = marker
                       /\ AfterMarker(t, i) # <<>>
                       /\ Head(AfterMarker(t, i)) \notin {NL, QUOTE} }

LeftMost(S) == CHOOSE i \in S : \A j \in S : i <= j

\* group(1).strip() of the leftmost match: the lazy group runs to the end of the
\* prompt, less one closing quote and trailing whitespace
InstructionMatch(p, marker) ==
  LET S == MatchAt(p.tail, marker) IN
  IF S = {} THEN [some |-> FALSE, text |-> <<>>]
  ELSE [some |-> TRUE,
        text |-> StripTrailingNL(DropQuoteBack(StripTrailingNL(AfterMarker(p.tail, LeftMost(S)))))]

UserDreamMatch(p) == \E i \in 1..Len(p.tail) : p.tail[i] = "User dream:"

TinyScene ==
  [make_base EXCEPT !.id = "local_<hash>", !.title = "<user dream text>", !.seed = 12345]

Diagnostic ==
  [EmptyDoc EXCEPT !.error = "local_stub_could_not_handle_prompt",
                   !.promptStart = "<prompt[:400]>"]

LocalStubRaises(p) ==
  LET b == BaseMatch(p)
      e == InstructionMatch(p, "Edit Instruction:")
      s == InstructionMatch(p, "Requested Style:")
  IN  IF e.some /\ b.some THEN SafePatchRaises(b.doc, e.text)
      ELSE IF s.some /\ b.some THEN ApplyStyleRaises(b.doc, s.text)
      ELSE FALSE

_local_stub_from_prompt(p) ==
  LET b == BaseMatch(p)
      e == InstructionMatch(p, "Edit Instruction:")
      s == InstructionMatch(p, "Requested Style:")
  IN  IF e.some /\ b.some THEN JsonText(safe_patch(b.doc, e.text))
      ELSE IF s.some /\ b.some THEN JsonText(apply_style(b.doc, s.text))
      ELSE IF UserDreamMatch(p) THEN JsonText(TinyScene)
      ELSE JsonText(Diagnostic)

\* the configured backend: no api_url, or a remote whose single request fails
\* (network error, timeout, non-2xx) or returns a text
LocalBackend == [remote |-> FALSE, outcome |-> "none", text |-> NoResponse]
RemoteError == [remote |-> TRUE, outcome |-> "error", text |-> NoResponse]
RemoteText(t) == [remote |-> TRUE, outcome |-> "text", text |-> t]

\* a remote response body: json says whether resp.json() parses it, raw is
\* resp.text, kind the type of the parsed value; text and output are AbsentText when
\* the key is missing; choices is absent, not a list, or a list of elements c, each
\* a mapping (message absent, a mapping or a string; content and text absent, empty
\* or a text), a bare string, or a number
RemoteBody(b) == [remote |-> TRUE, outcome |-> "body", text |-> NoResponse, body |-> b]

\* c["message"].get("content") on a message that is a non-empty string
CallRemoteRaises(b) ==
  /\ b.json /\ b.kind = "map" /\ b.text = AbsentText /\ b.output = AbsentText
  /\ b.choices.kind = "list" /\ Len(b.choices.items) > 0
  /\ b.choices.items[1].kind = "map" /\ b.choices.items[1].message.kind = "str"

_call_remote(b) ==
  IF ~b.json THEN b.raw
  ELSE IF b.kind # "map" THEN <<"<str(data)>">>
  ELSE IF b.text # AbsentText THEN b.text
  ELSE IF b.output # AbsentText THEN b.output
  ELSE IF b.choices.kind = "list" /\ Len(b.choices.items) > 0
       THEN LET c == b.choices.items[1] IN
            IF c.kind = "map" /\ c.message.kind = "map"
               /\ c.message.content \notin {AbsentText, <<>>}
            THEN c.message.content
            ELSE IF c.kind = "map" /\ c.text \notin {AbsentText, <<>>} THEN c.text
            ELSE IF c.kind = "str" THEN c.str
            ELSE <<"<json.dumps(data)>">>
  ELSE <<"<json.dumps(data)>">>

\* generate(): the remote text, or the local stub when no remote is configured
\* or the remote call raised; an exception of the local stub escapes
GenerateRaises(b, p) == ~(b.remote /\ b.outcome = "text") /\ LocalStubRaises(p)
generate(b, p) == IF b.remote /\ b.outcome = "text" THEN b.text ELSE _local_stub_from_prompt(p)

(***************************************************************************)
(* Ownership of documents.  A transform works on copy.deepcopy of its      *)
(* input; `shared` is the set of container keys under which the returned   *)
(* document still holds the very object of the caller's document, and an   *)
(* in-place update of such an object is seen through the caller's document.*)
(***************************************************************************)
ContainerKeys == {"environment", "structures", "entities", "cinematography",
                  "assumptions", "patchHistory", "metadata"}

ContainersOf(d) ==
  { k \in ContainerKeys :
      CASE k = "environment" -> d.environment.kind # "absent"
        [] k = "structures" -> d.structures.kind # "absent"
        [] k = "entities" -> d.entities.kind # "absent"
        [] k = "cinematography" -> d.cinematography.kind # "absent"
        [] k = "assumptions" -> d.assumptions.kind # "absent"
        [] k = "patchHistory" -> d.patchHistory.kind # "absent"
        [] k = "metadata" -> d.metadata.kind # "absent" }

\* repaired = copy.deepcopy(dream)
RepairCopyShares(d) == {}
\* a shallow copy: every container of the input is still shared
PatchCopyShares_shallow(d) == ContainersOf(d)

\* patched = copy.deepcopy(base)
PatchCopyShares(d) == {}
\* out = copy.deepcopy(base)
StyleCopyShares(d) == {}

\* the caller's document b after the transform produced out on a copy sharing sh
WriteThrough(b, out, sh) ==
  [b EXCEPT
     !.environment = IF "environment" \in sh /\ out.environment.kind = @.kind
                     THEN out.environment ELSE @,
     !.structures = IF "structures" \in sh /\ out.structures.kind = @.kind
                    THEN out.structures ELSE @,
     !.entities = IF "entities" \in sh /\ out.entities.kind = @.kind
                  THEN out.entities ELSE @,
     !.cinematography = IF "cinematography" \in sh /\ out.cinematography.kind = @.kind
                        THEN out.cinematography ELSE @,
     !.assumptions = IF "assumptions" \in sh /\ out.assumptions.kind = @.kind
                     THEN out.assumptions ELSE @,
     !.patchHistory = IF "patchHistory" \in sh /\ out.patchHistory.kind = @.kind
                      THEN out.patchHistory ELSE @]

(***************************************************************************)
(* Inputs                                                                  *)
(***************************************************************************)
Fields == {"id", "title", "style", "environment", "structures", "entities",
           "cinematography", "assumptions", "patchHistory"}

Entity2 == [id |-> "e2", type |-> "orb",
            params |-> [kind |-> "map", color |-> ABSENT, speed |-> 800, glow |-> NoNum]]

StyleAlts == { AbsentText, <<"vaporwave">>, <<"nightmare">> }
EnvAlts == { AbsentEnv, EmptyEnv, NumEnv }
StructAlts == { AbsentList, NumList, EmptyList,
                ListOf(<<[BaseStructure EXCEPT !.id = ABSENT]>>) }
EntityAlts == { AbsentList, NumList, EmptyList,
                ListOf(<<[BaseEntity EXCEPT !.params = AbsentParams]>>),
                ListOf(<<BaseEntity, Entity2>>),
                ListOf(<<[BaseEntity EXCEPT !.params.glow = -1000]>>) }
CineAlts ==
  { AbsentCine, NumCine, EmptyCine,
    [EmptyCine EXCEPT !.durationSec = 12],
    [EmptyCine EXCEPT !.shots = NumList],
    [EmptyCine EXCEPT !.shots = ListOf(<<NumShot>>)],
    [EmptyCine EXCEPT !.shots = ListOf(<<MapShot("pan", "s1", 7), MapShot("orbit", "s1", 5)>>)],
    [EmptyCine EXCEPT !.shots = ListOf(<<MapShot("pan", "s1", NoNum)>>)],
    [EmptyCine EXCEPT !.shots = EmptyList],
    [EmptyCine EXCEPT !.durationSec = 12, !.shots = EmptyList],
    [EmptyCine EXCEPT !.durationSec = 12, !.shots = NumList] }
AssumptionAlts == { ListOf(<< <<"a0">> >>), NumList }
HistoryAlts == { ListOf(<<[editText |-> <<"old">>, appliedAt |-> "<earlier>", source |-> "stub"]>>),
                 NumList }

Pick(f, F, alts, dflt) == IF f \in F THEN alts ELSE {dflt}

\* the documents that differ from make_base in exactly the fields F
DocsWith(F) ==
  { [make_base EXCEPT !.id = i, !.title = t, !.style = s, !.environment = env,
                      !.structures = st, !.entities = en, !.cinematography = c,
                      !.assumptions = a, !.patchHistory = h] :
      i \in Pick("id", F, {ABSENT}, make_base.id),
      t \in Pick("title", F, {ABSENT}, make_base.title),
      s \in Pick("style", F, StyleAlts, make_base.style),
      env \in Pick("environment", F, EnvAlts, make_base.environment),
      st \in Pick("structures", F, StructAlts, make_base.structures),
      en \in Pick("entities", F, EntityAlts, make_base.entities),
      c \in Pick("cinematography", F, CineAlts, make_base.cinematography),
      a \in Pick("assumptions", F, AssumptionAlts, make_base.assumptions),
      h \in Pick("patchHistory", F, HistoryAlts, make_base.patchHistory) }

\* the request bodies: baseJson is a mapping, its fields are arbitrary
Docs == UNION { DocsWith(F) : F \in { S \in SUBSET Fields : Cardinality(S) <= MaxDefects } }

EditTexts ==
  { <<"make", "the", "books", "BLUE", "and", "add", "an", "island">>,
    <<"this", "is", "a", "weird", "request">>,
    <<"GO", "faster", "goldfish">>,
    <<QUOTE, "blue", QUOTE, "add", "island">>,
    <<>> }

\* the bodies a remote backend may send
ResponseBodies ==
  LET Texts(t) == { AbsentText, <<>>, <<t>> }
      Messages == { [kind |-> k, content |-> ct] :
                      k \in {"absent", "map", "str"}, ct \in Texts("content") }
      Elements == { [kind |-> "map", message |-> m, text |-> t, str |-> <<>>] :
                      m \in { x \in Messages : x.kind = "map" \/ x.content = AbsentText },
                      t \in Texts("choice text") }
                  \cup { [kind |-> "str", message |-> [kind |-> "absent", content |-> AbsentText],
                          text |-> AbsentText, str |-> <<"bare choice">>],
                         [kind |-> "num", message |-> [kind |-> "absent", content |-> AbsentText],
                          text |-> AbsentText, str |-> <<>>] }
      Choices == { AbsentList, NumList, EmptyList } \cup { ListOf(<<c>>) : c \in Elements }
  IN  { [json |-> TRUE, raw |-> <<"<body>">>, kind |-> "map", text |-> t, output |-> o,
         choices |-> ch] :
          t \in { AbsentText, <<"text value">> }, o \in { AbsentText, <<"output value">> },
          ch \in Choices }
      \cup { [json |-> j, raw |-> <<"<body>">>, kind |-> "list", text |-> AbsentText,
              output |-> AbsentText, choices |-> AbsentList] : j \in BOOLEAN }

\* further edit texts for the text-edit transforms called directly
RuleTexts ==
  { <<"add", "a", "tower">>,
    <<"make", "it", "calm", "and", "slower">>,
    <<"quick", "red", "and", "gold">>,
    <<"bored", "fish">> }

\* the values drawn from random.uniform for an inserted structure's position
RandomDraws ==
  { [island |-> <<0, 15, 0>>, tower |-> <<0, 10, 0>>],
    [island |-> <<30, 20, -30>>, tower |-> <<-20, 30, 20>>] }

StyleNames == { <<"cyberpunk">>, <<"CyberPunk">>, <<"nightmare">>, <<"vaporwave">> }

OptionChoices == { <<>>, <<"max_tokens">> }

\* response texts for the JSON extraction: prose or stray braces, then an object
\* (complete, with a trailing comma, nested, with a brace inside a string, or
\* unclosed), then more prose, braces or a second object
RawTexts ==
  LET TextPrefixes ==
        { <<>>, <<"Here", "is", "the", "result:">>, <<"oops", "}", "here:">>, <<"{">>, <<Tok.open>> }
      TextCores ==
        { <<"{", Tok.id, ":", Tok.x, "}">>,
          <<"{", Tok.id, ":", Tok.x, ",", "}">>,
          <<"{", Tok.id, ":", Tok.x, ",", Tok.environment, ":", "{", "}", "}">>,
          <<"{", Tok.id, ":", Tok.close, "}">>,
          <<"{", Tok.id, ":", Tok.open, "}">>,
          <<"{", Tok.id, ":", Tok.x>>,
          <<"{", "}">>,
          <<"no", "json">>,
          <<"5">> }
      TextSuffixes ==
        { <<>>, <<"--", "hope", "that", "helps">>, <<"tail", "}">>,
          <<"and", "{", Tok.title, ":", Tok.y, "}">>, <<Tok.close>> }
  IN  { p \o c \o x : p \in TextPrefixes, c \in TextCores, x \in TextSuffixes }

\* 'Here is the result: {"id":"x"} -- hope that helps'
WrappedExample ==
  <<"Here", "is", "the", "result:", "{", Tok.id, ":", Tok.x, "}", "--", "hope", "that", "helps">>

\* documents a remote backend may answer with
RemoteValid ==
  [make_base EXCEPT !.id = "r1", !.style = <<"cyberpunk">>,
                    !.metadata = [AbsentMeta EXCEPT !.kind = "map", !.author = "remote"]]
RemoteNoId == [EmptyDoc EXCEPT !.title = "Remote Dream", !.style = <<"surreal">>]
RemoteBadCine == [RemoteValid EXCEPT !.cinematography = [EmptyCine EXCEPT !.shots = NumList]]
RemoteBadHistory == [RemoteValid EXCEPT !.patchHistory = NumList,
                                        !.metadata = [AbsentMeta EXCEPT !.kind = "num"]]
RemoteDocs == { EmptyDoc, NumDoc, RemoteValid, RemoteNoId, RemoteBadCine, RemoteBadHistory }

Backends ==
  { LocalBackend, RemoteError, RemoteText(Prose), RemoteText(Malformed),
    RemoteText(WrappedJson(RemoteValid)), RemoteText(RawText(WrappedExample)) }
  \cup { RemoteText(JsonText(d)) : d \in RemoteDocs }

Resolvers == {"apply_patch", "enrich_style"}
Parsers == {"extract_json_from_text"}
Clients == {"_call_remote"}
Transforms == {"safe_patch", "stub_apply_patch", "apply_style", "repair_dream",
               "validate_dream"}

NoResult == [EmptyDoc EXCEPT !.kind = "none"]
NoVerdict == [ok |-> FALSE, errors |-> << <<"<none>">> >>]

ArgsOf(o) ==
  CASE o = "apply_patch" -> EditTexts
    [] o \in {"safe_patch", "stub_apply_patch"} -> EditTexts \cup RuleTexts
    [] o \in {"enrich_style", "apply_style"} -> StyleNames
    [] OTHER -> { <<>> }

(***************************************************************************)
(* State machine                                                           *)
(***************************************************************************)
Init ==
  /\ op \in Resolvers \cup Transforms \cup Parsers \cup Clients
  /\ base \in (IF op = "validate_dream" THEN Docs \cup {NumDoc}
               ELSE IF op \in Parsers \cup Clients THEN {make_base} ELSE Docs)
  /\ base0 = base
  /\ arg \in ArgsOf(op)
  /\ options \in (IF op \in Resolvers THEN OptionChoices ELSE { <<>> })
  /\ backend \in (IF op \in Resolvers THEN Backends
                  ELSE IF op \in Clients THEN { RemoteBody(b) : b \in ResponseBodies }
                  ELSE { LocalBackend })
  /\ pc = IF op \in Resolvers THEN "attempt" ELSE "call"
  /\ prompt = NoPrompt
  /\ response \in (IF op \in Parsers THEN { RawText(t) : t \in RawTexts } ELSE { NoResponse })
  /\ parsed = None
  /\ result = NoResult
  /\ verdict = NoVerdict
  /\ tag = "none"
  /\ shared = {}
  /\ calls = 0
  /\ rounds = 0

\* ---- the four library functions called directly ----
CallValidate ==
  /\ pc = "call" /\ op = "validate_dream"
  /\ verdict' = validate_dream(base)
  /\ pc' = "done"
  /\ UNCHANGED <<op, base, base0, arg, options, backend, prompt, response, parsed,
                 result, tag, shared, calls, rounds>>

CallRepair ==
  /\ pc = "call" /\ op = "repair_dream"
  /\ IF RepairRaises(base)
     THEN /\ pc' = "raised"
          /\ UNCHANGED <<base, result, shared>>
     ELSE /\ pc' = "done"
          /\ result' = repair_dream(base)
          /\ shared' = RepairCopyShares(base)
          /\ base' = WriteThrough(base, repair_dream(base), RepairCopyShares(base))
  /\ UNCHANGED <<op, base0, arg, options, backend, prompt, response, parsed,
                 verdict, tag, calls, rounds>>

CallSafePatch ==
  /\ pc = "call" /\ op = "safe_patch"
  /\ IF SafePatchRaises(base, arg)
     THEN /\ pc' = "raised"
          /\ UNCHANGED <<base, result, shared>>
     ELSE /\ pc' = "done"
          /\ result' = safe_patch(base, arg)
          /\ shared' = PatchCopyShares(base)
          /\ base' = WriteThrough(base, safe_patch(base, arg), PatchCopyShares(base))
  /\ UNCHANGED <<op, base0, arg, options, backend, prompt, response, parsed,
                 verdict, tag, calls, rounds>>

CallApplyStyle ==
  /\ pc = "call" /\ op = "apply_style"
  /\ IF ApplyStyleRaises(base, arg)
     THEN /\ pc' = "raised"
          /\ UNCHANGED <<base, result, shared>>
     ELSE /\ pc' = "done"
          /\ result' = apply_style(base, arg)
          /\ shared' = StyleCopyShares(base)
          /\ base' = WriteThrough(base, apply_style(base, arg), StyleCopyShares(base))
  /\ UNCHANGED <<op, base0, arg, options, backend, prompt, response, parsed,
                 verdict, tag, calls, rounds>>

CallStubPatch ==
  /\ pc = "call" /\ op = "stub_apply_patch"
  /\ IF StubPatchRaises(base, arg)
     THEN pc' = "raised" /\ UNCHANGED result
     ELSE /\ pc' = "done"
          /\ \E rnd \in RandomDraws : result' = stub_apply_patch(base, arg, rnd)
  /\ UNCHANGED <<op, base, base0, arg, options, backend, prompt, response, parsed,
                 verdict, tag, shared, calls, rounds>>

\* the caller sends the returned document back as the next request, with the same
\* edit text or style name
Resubmit ==
  /\ pc = "done" /\ op \in {"safe_patch", "stub_apply_patch", "apply_style"}
  /\ rounds < MaxApplications
  /\ base' = result /\ base0' = result
  /\ result' = NoResult /\ shared' = {}
  /\ pc' = "call" /\ rounds' = rounds + 1
  /\ UNCHANGED <<op, arg, options, backend, prompt, response, parsed, verdict, tag,
                 calls>>

\* ---- extract_json_from_text called on a response text ----
CallExtract ==
  /\ pc = "call" /\ op = "extract_json_from_text"
  /\ parsed' = extract_json_from_text(response)
  /\ pc' = "done"
  /\ UNCHANGED <<op, base, base0, arg, options, backend, prompt, response, result,
                 verdict, tag, shared, calls, rounds>>

\* ---- _call_remote on a response body that passed raise_for_status ----
CallRemote ==
  /\ pc = "call" /\ op = "_call_remote"
  /\ IF CallRemoteRaises(backend.body)
     THEN pc' = "raised" /\ UNCHANGED response
     ELSE pc' = "done" /\ response' = RawText(_call_remote(backend.body))
  /\ UNCHANGED <<op, base, base0, arg, options, backend, prompt, parsed, result,
                 verdict, tag, shared, calls, rounds>>

\* ---- the resolvers apply_patch and enrich_style, stage by stage ----
BuildPrompt ==
  IF op = "apply_patch" THEN build_patch_prompt(base, arg, options)
  ELSE build_style_prompt(base, arg, options)

\* ATTEMPT_LLM: build the prompt and call client.generate
AttemptLLM ==
  /\ pc = "attempt"
  /\ prompt' = BuildPrompt
  /\ calls' = IF backend.remote THEN calls + 1 ELSE calls
  /\ IF GenerateRaises(backend, BuildPrompt)
     THEN pc' = "handler" /\ UNCHANGED response
     ELSE pc' = "parse" /\ response' = generate(backend, BuildPrompt)
  /\ UNCHANGED <<op, base, base0, arg, options, backend, parsed, result, verdict,
                 tag, shared, rounds>>

\* PARSE: extract_json_from_text, else parse the whole text
Parse ==
  /\ pc = "parse"
  /\ LET p1 == extract_json_from_text(response)
         p2 == IF Truthy(p1) THEN p1 ELSE parse_json_or_none(response)
     IN  /\ parsed' = p2
         /\ IF ~Truthy(p2) \/ ~IsDict(p2)
            THEN /\ pc' = "fallback"
                 /\ tag' = IF op = "apply_patch" THEN "used_safe_fallback"
                           ELSE "applied_deterministic_style_mapper"
            ELSE pc' = "validate" /\ UNCHANGED tag
  /\ UNCHANGED <<op, base, base0, arg, options, backend, prompt, response, result,
                 verdict, shared, calls, rounds>>

\* the success path of apply_patch: keep the original id, append to patchHistory
PatchSuccessRaises(d) == AppendRaises(d.patchHistory)
PatchSuccess(d, b, edit_text) ==
  [d EXCEPT !.id = IF d.id = ABSENT /\ b.id # ABSENT THEN b.id ELSE @,
            !.patchHistory = ListAppend(@, HistoryEntry(edit_text, "llama-stylist"))]

\* the success path of enrich_style: default the style, merge the metadata
StyleSuccessRaises(d) == d.metadata.kind = "num"
\* a success path that replaces the metadata mapping instead of merging into it
StyleSuccess_replace_metadata(d, target_style) ==
  [d EXCEPT !.style = IF @ = AbsentText THEN target_style ELSE @,
            !.metadata = [AbsentMeta EXCEPT !.kind = "map", !.enrichedBy = "llama-stylist",
                                            !.targetStyle = target_style]]

StyleSuccess(d, target_style) ==
  [d EXCEPT !.style = IF @ = AbsentText THEN target_style ELSE @,
            !.metadata = [@ EXCEPT !.kind = "map", !.enrichedBy = "llama-stylist",
                                   !.targetStyle = target_style]]

\* VALIDATE: a valid parsed document is finished and returned
Validate ==
  /\ pc = "validate"
  /\ verdict' = validate_dream(parsed.doc)
  /\ IF validate_dream(parsed.doc).ok
     THEN IF op = "apply_patch"
          THEN IF PatchSuccessRaises(parsed.doc)
               THEN pc' = "handler" /\ UNCHANGED result
               ELSE pc' = "done" /\ result' = PatchSuccess(parsed.doc, base, arg)
          ELSE IF StyleSuccessRaises(parsed.doc)
               THEN pc' = "handler" /\ UNCHANGED result
               ELSE pc' = "done" /\ result' = StyleSuccess(parsed.doc, arg)
     ELSE pc' = "repair" /\ UNCHANGED result
  /\ UNCHANGED <<op, base, base0, arg, options, backend, prompt, response, parsed,
                 tag, shared, calls, rounds>>

\* REPAIR: repair the rejected document and validate it again
Repair ==
  /\ pc = "repair"
  /\ IF RepairRaises(parsed.doc)
     THEN pc' = "handler" /\ UNCHANGED <<result, verdict, tag>>
     ELSE LET repaired == repair_dream(parsed.doc)
              t == IF op = "apply_patch" THEN "auto-repaired after validation errors"
                   ELSE "repaired_enriched_result"
          IN  /\ verdict' = validate_dream(repaired)
              /\ IF validate_dream(repaired).ok
                 THEN /\ pc' = "done"
                      /\ tag' = t
                      /\ result' = [repaired EXCEPT !.assumptions = ListAppend(@, <<t>>)]
                 ELSE /\ pc' = "fallback"
                      /\ tag' = "fallback_after_failed_repair"
                      /\ UNCHANGED result
  /\ UNCHANGED <<op, base, base0, arg, options, backend, prompt, response, parsed,
                 shared, calls, rounds>>

\* the deterministic transform of the resolver on the original document
FallbackRaises ==
  IF op = "apply_patch" THEN SafePatchRaises(base, arg) ELSE ApplyStyleRaises(base, arg)
\* a fallback that patches the document parsed from the response, when there is one
FallbackDoc_on_parsed ==
  IF op = "apply_patch" THEN safe_patch(IF parsed.some THEN parsed.doc ELSE base, arg)
  ELSE apply_style(base, arg)

FallbackDoc == IF op = "apply_patch" THEN safe_patch(base, arg) ELSE apply_style(base, arg)
FallbackShares == IF op = "apply_patch" THEN PatchCopyShares(base) ELSE StyleCopyShares(base)

\* FALLBACK inside the try block: an exception goes to the handler
Fallback ==
  /\ pc = "fallback"
  /\ IF FallbackRaises
     THEN pc' = "handler" /\ UNCHANGED <<base, result, shared>>
     ELSE /\ pc' = "done"
          /\ result' = [FallbackDoc EXCEPT !.assumptions = ListAppend(@, <<tag>>)]
          /\ shared' = FallbackShares
          /\ base' = WriteThrough(base, FallbackDoc, FallbackShares)
  /\ UNCHANGED <<op, base0, arg, options, backend, prompt, response, parsed,
                 verdict, tag, calls, rounds>>

\* except Exception: the same transform, outside any try block
Handler ==
  /\ pc = "handler"
  /\ tag' = "fallback_on_exception"
  /\ IF FallbackRaises
     THEN pc' = "raised" /\ UNCHANGED <<base, result, shared>>
     ELSE /\ pc' = "done"
          /\ result' = [FallbackDoc EXCEPT
                          !.assumptions = ListAppend(@, <<"fallback_on_exception">>)]
          /\ shared' = FallbackShares
          /\ base' = WriteThrough(base, FallbackDoc, FallbackShares)
  /\ UNCHANGED <<op, base0, arg, options, backend, prompt, response, parsed,
                 verdict, calls, rounds>>

Next ==
  \/ CallValidate
  \/ CallRepair
  \/ CallSafePatch
  \/ CallStubPatch
  \/ CallApplyStyle
  \/ Resubmit
  \/ CallExtract
  \/ CallRemote
  \/ AttemptLLM
  \/ Parse
  \/ Validate
  \/ Repair
  \/ Fallback
  \/ Handler

Spec == Init /\ [][Next]_vars

\* A call that has started runs on: the interpreter executes the next statement,
\* and the one outbound request is bounded by its timeout.  This is weak fairness
\* of every action; for AttemptLLM it is written out, ENABLED <<AttemptLLM>>_vars
\* being pc = "attempt".
FairSpec ==
  /\ Spec
  /\ WF_vars(CallValidate) /\ WF_vars(CallRepair) /\ WF_vars(CallSafePatch)
  /\ WF_vars(CallStubPatch) /\ WF_vars(CallApplyStyle) /\ WF_vars(CallExtract)
  /\ WF_vars(CallRemote)
  /\ ([]<>(pc # "attempt") \/ []<><<AttemptLLM>>_vars)
  /\ WF_vars(Parse) /\ WF_vars(Validate) /\ WF_vars(Repair)
  /\ WF_vars(Fallback) /\ WF_vars(Handler)

(***************************************************************************)
(* Properties                                                              *)
(***************************************************************************)
Items(l) == IF l.kind = "list" THEN l.items ELSE <<>>

IsPrefix(s, t) == Len(s) <= Len(t) /\ SubSeq(t, 1, Len(s)) = s

Contains(l, x) == \E i \in 1..Len(Items(l)) : Items(l)[i] = x

Returned == pc = "done"
Escaped == pc = "raised"

\* C1: apply_patch never fails to its caller: whatever the fields of the input
\* mapping, the edit text and the backend outcome, no exception escapes the call.
C1_PatchNeverRaises == op = "apply_patch" => ~Escaped

\* C2: the document apply_patch(d, e, {}) returns has structures, entities and
\* assumptions as sequences, and its assumptions are those of d, in order,
\* followed by at least one appended entry, on every route.
C2_ContainersAndAudit ==
  (op = "apply_patch" /\ options = <<>> /\ Returned) =>
    /\ result.structures.kind = "list"
    /\ result.entities.kind = "list"
    /\ result.assumptions.kind = "list"
    /\ IsPrefix(Items(base0.assumptions), result.assumptions.items)
    /\ Len(result.assumptions.items) > Len(Items(base0.assumptions))

\* C3: when the backend answers with prose that holds no JSON, apply_patch does
\* not raise and returns a document the Validator accepts, tagged used_safe_fallback.
C3_ProseFallbackValid ==
  (op = "apply_patch" /\ backend = RemoteText(Prose)) =>
    /\ ~Escaped
    /\ Returned => /\ validate_dream(result).ok
                   /\ Contains(result.assumptions, <<"used_safe_fallback">>)

\* C4: with no remote backend, enrich_style of a valid document with one of the
\* five table styles returns a document with that style, the style's sky colour
\* and the style's colour on the entities.
C4_LocalStyleEnrichment ==
  (op = "enrich_style" /\ backend = LocalBackend /\ validate_dream(base0).ok
     /\ arg \in Styles /\ Returned) =>
    /\ result.style = arg
    /\ result.environment.skyColor = STYLE_CONFIGS(arg).environment.skyColor
    /\ \A i \in 1..Len(Items(result.entities)) :
         Items(result.entities)[i].params.color = STYLE_CONFIGS(arg).entityDefaults.color

MentionsBlueIsland(e) ==
  /\ HasWord(LowerText(e), "blue")
  /\ HasWord(LowerText(e), "add")
  /\ HasWord(LowerText(e), "island")

\* C5: for a document with at least one entity and an edit text containing blue,
\* add and island, the result of safe_patch, and of apply_patch with no remote
\* backend, has an entity coloured #0000ff and a floating_island structure.
C5_BlueIsland ==
  (/\ op = "safe_patch" \/ (op = "apply_patch" /\ backend = LocalBackend)
   /\ Len(Items(base0.entities)) > 0
   /\ MentionsBlueIsland(arg)
   /\ Returned) =>
    /\ \E i \in 1..Len(Items(result.entities)) :
         Items(result.entities)[i].params.color = "#0000ff"
    /\ \E i \in 1..Len(Items(result.structures)) :
         Items(result.structures)[i].template = "floating_island"

\* an edit text with no colour keyword, no add-structure phrase and no speed keyword
TriggersNoRule(e) ==
  LET t == LowerText(e) IN
  /\ \A i \in 1..Len(ColorOrder) : ~HasWord(t, ColorOrder[i])
  /\ ~HasWord(t, "add")
  /\ \A k \in {"faster", "quick", "slower", "calm", "gentle"} : ~HasWord(t, k)
  /\ ~HasPhrase(t, "speed", "up")

\* C6: for an edit text that triggers no rule, safe_patch appends the entry
\* Requested edit recorded: "<editText>" to assumptions and one entry to
\* patchHistory, and leaves every other field of the document as it was.
C6_NoRuleFrame ==
  (op = "safe_patch" /\ Returned /\ TriggersNoRule(arg)) =>
    /\ result.assumptions =
         ListOf(Items(base0.assumptions)
                \o << <<"Requested edit recorded:", QUOTE>> \o arg \o <<QUOTE>> >>)
    /\ result.patchHistory.kind = "list"
    /\ Len(result.patchHistory.items) = Len(Items(base0.patchHistory)) + 1
    /\ IsPrefix(Items(base0.patchHistory), result.patchHistory.items)
    /\ result.structures = base0.structures
    /\ result.entities = base0.entities
    /\ result.environment = base0.environment
    /\ [result EXCEPT !.assumptions = base0.assumptions,
                      !.patchHistory = base0.patchHistory] = base0

C6_Witness ==
  /\ op = "safe_patch" /\ Returned /\ TriggersNoRule(arg) /\ arg # <<>>
  /\ Len(Items(base0.entities)) > 0
  /\ base0.assumptions.kind = "list"

\* C7: for every mapping d with id, title, style or cinematography missing or
\* invalid, validate(repair(d)) is (true, []), the repaired style is one of the
\* five values and cinematography has durationSec and non-empty shots.
C7_RepairedValidates ==
  (op = "repair_dream" /\ ~validate_dream(base0).ok) =>
    /\ ~Escaped
    /\ Returned => /\ validate_dream(result) = [ok |-> TRUE, errors |-> <<>>]
                   /\ result.style \in Styles
                   /\ result.cinematography.durationSec # NoNum
                   /\ Len(Items(result.cinematography.shots)) > 0

\* C8: repair_dream is total on mappings: it returns a document and never raises.
C8_RepairTotal == op = "repair_dream" => ~Escaped

\* C9: no transform or resolver changes the caller's document, and the returned
\* document shares no container with it.
C9_InputUntouched == base = base0 /\ shared = {}

C9_Witness ==
  /\ op = "apply_patch" /\ Returned /\ tag = "used_safe_fallback"
  /\ Len(Items(base0.entities)) > 0
  /\ result.entities # base0.entities
  /\ Len(Items(base0.assumptions)) > 0

\* the rules of the Validator as the specification words them
RuleMissing(d, f) ==
  CASE f = "id" -> d.id = ABSENT [] f = "title" -> d.title = ABSENT
    [] f = "style" -> d.style = AbsentText
RuleBadStyle(d) == d.style # AbsentText /\ d.style \notin Styles
RuleCineNotObject(d) == d.cinematography.kind \notin {"absent", "map"}
RuleCineMissing(d) ==
  /\ d.cinematography.kind = "map"
  /\ d.cinematography.durationSec = NoNum \/ d.cinematography.shots.kind = "absent"
RuleShotsInvalid(d) ==
  /\ d.cinematography.kind = "map"
  /\ d.cinematography.durationSec # NoNum
  /\ d.cinematography.shots.kind # "absent"
  /\ ~(d.cinematography.shots.kind = "list" /\ d.cinematography.shots.items # <<>>)

InSeq(x, s) == \E i \in 1..Len(s) : s[i] = x

\* C10: validate_dream returns ok exactly for a mapping with id, title and an
\* enum style whose cinematography, if present, is a mapping with durationSec and
\* a non-empty shots sequence; ok holds iff no error is reported, every
\* violated rule reports its code, and the document is not modified.
C10_ValidateExact ==
  (op = "validate_dream" /\ Returned) =>
    /\ verdict.ok <=> /\ base0.kind = "map"
                      /\ \A f \in {"id", "title", "style"} : ~RuleMissing(base0, f)
                      /\ ~RuleBadStyle(base0)
                      /\ ~RuleCineNotObject(base0)
                      /\ ~RuleCineMissing(base0)
                      /\ ~RuleShotsInvalid(base0)
    /\ verdict.ok <=> verdict.errors = <<>>
    /\ base0.kind = "map" =>
         /\ \A f \in {"id", "title", "style"} :
              RuleMissing(base0, f) <=> InSeq(<<"missing_required:", f>>, verdict.errors)
         /\ RuleBadStyle(base0) <=> InSeq(<<"invalid_style:">> \o base0.style, verdict.errors)
         /\ RuleCineNotObject(base0) <=> InSeq(<<"cinematography_not_object">>, verdict.errors)
         /\ RuleCineMissing(base0)
              <=> InSeq(<<"cinematography_missing_duration_or_shots">>, verdict.errors)
         /\ RuleShotsInvalid(base0) <=> InSeq(<<"cinematography_shots_invalid">>, verdict.errors)
    /\ base = base0

C10_Witness ==
  /\ op = "validate_dream" /\ Returned
  /\ ~verdict.ok
  /\ InSeq(<<"cinematography_shots_invalid">>, verdict.errors)

\* the first balanced block the specification describes: from the first "{", up to
\* the first position at which as many braces have closed as have opened
Balance(t, f, i) ==
  Cardinality({ k \in f..i : HasOpenBrace(t[k]) }) - Cardinality({ k \in f..i : HasCloseBrace(t[k]) })

FirstBalanced(t) ==
  LET opens == { i \in 1..Len(t) : HasOpenBrace(t[i]) } IN
  IF opens = {} THEN NoBlock
  ELSE LET f == CHOOSE i \in opens : \A j \in opens : i <= j
           ends == { i \in f..Len(t) : Balance(t, f, i) = 0 }
       IN  IF ends = {} THEN NoBlock
           ELSE Block(t, f, CHOOSE i \in ends : \A j \in ends : i <= j)

ParseOfFirstBalanced(t) ==
  LET b == FirstBalanced(t) IN
  IF ~b.some THEN None
  ELSE IF json_loads(b.toks).some THEN json_loads(b.toks)
  ELSE json_loads(TidyCommas(b.toks))

\* C12: extract_json_from_text returns the parse of the first balanced
\* brace-delimited block that starts at the first "{", parsed again with the
\* trailing commas stripped if the first parse fails, and none if there is no
\* balanced block or no parse succeeds; the object of the wrapped example
\* 'Here is the result: {"id":"x"} -- hope that helps' is {id: x}.
C12_ExtractJson ==
  (op = "extract_json_from_text" /\ Returned) =>
    /\ parsed = ParseOfFirstBalanced(response.raw)
    /\ response.raw = WrappedExample => parsed = Some([EmptyDoc EXCEPT !.id = "x"])

\* C11: generate never fails to its caller: for every backend outcome and every
\* prompt the ATTEMPT_LLM stage ends with a response text (no exception of
\* generate, also none raised inside the local stub, reaches the resolver), and
\* after a remote failure the text is the local stub's output for the same prompt.
C11_GenerateTotal ==
  [][pc = "attempt" =>
       /\ pc' = "parse"
       /\ response' # NoResponse
       /\ backend = RemoteError => response' = _local_stub_from_prompt(prompt')]_vars

\* the stage of the resolver's state machine a control point belongs to; the
\* exception handler runs the fallback transform, so it is part of FALLBACK
StageRank(p) ==
  CASE p = "attempt" -> 1 [] p = "parse" -> 2 [] p = "validate" -> 3 [] p = "repair" -> 4
    [] p \in {"fallback", "handler"} -> 5 [] p = "done" -> 6 [] OTHER -> 7

\* a step of a resolver enters a later stage
ForwardStep == op \in Resolvers => StageRank(pc) < StageRank(pc')

\* C13: every apply_patch / enrich_style invocation eventually returns (reaches
\* DONE); it moves through ATTEMPT_LLM, PARSE, VALIDATE, REPAIR, FALLBACK, DONE
\* only forwards, never entering a stage twice, and sends at most one request
\* to the backend.
C13_ForwardToDone ==
  /\ <>(op \in Resolvers => pc = "done")
  /\ [][ForwardStep]_vars
  /\ [](calls <= 1)

\* C14: whenever the response yields a parsed JSON object that the Validator
\* rejects, the empty object {} included, apply_patch repairs that object and
\* validates it again: if it is valid now, the returned document is the repaired
\* one with "auto-repaired after validation errors" appended to assumptions;
\* only otherwise it is the fallback tagged fallback_after_failed_repair.
C14_RejectedIsRepaired ==
  (op = "apply_patch" /\ Returned /\ IsDict(parsed) /\ ~validate_dream(parsed.doc).ok) =>
    LET repaired == repair_dream(parsed.doc) IN
    IF validate_dream(repaired).ok
    THEN result = [repaired EXCEPT !.assumptions =
                     ListAppend(@, <<"auto-repaired after validation errors">>)]
    ELSE result = [safe_patch(base0, arg) EXCEPT !.assumptions =
                     ListAppend(@, <<"fallback_after_failed_repair">>)]

RouteTags == {"used_safe_fallback", "fallback_after_failed_repair", "fallback_on_exception"}

\* an exception was raised inside the try block of apply_patch
CaughtException ==
  \/ GenerateRaises(backend, prompt)
  \/ Truthy(parsed) /\ IsDict(parsed) /\ validate_dream(parsed.doc).ok
       /\ PatchSuccessRaises(parsed.doc)
  \/ Truthy(parsed) /\ IsDict(parsed) /\ ~validate_dream(parsed.doc).ok
       /\ RepairRaises(parsed.doc)

C16_MissingFieldsFromRequest ==
  (Returned /\ IsDict(parsed)) =>
    /\ (op = "apply_patch" /\ parsed.doc.id = ABSENT /\ base0.id # ABSENT)
         => result.id = base0.id
    /\ (op = "enrich_style" /\ parsed.doc.style = AbsentText) => result.style = arg

\* apply_patch returned the backend's document, validated directly or after repair
OnSuccessPath == op = "apply_patch" /\ Returned /\ tag \notin RouteTags

\* C17: every document apply_patch returns on the success path, validated
\* directly or only after repair, has as the last entry of patchHistory an entry
\* with the request's edit text and source llama-stylist, and before it the
\* patchHistory entries of the backend's document, unchanged.
C17_HistoryOnSuccess ==
  OnSuccessPath =>
    /\ result.patchHistory.kind = "list"
    /\ Len(result.patchHistory.items) = Len(Items(parsed.doc.patchHistory)) + 1
    /\ IsPrefix(Items(parsed.doc.patchHistory), result.patchHistory.items)
    /\ LET last == result.patchHistory.items[Len(result.patchHistory.items)]
       IN  last.editText = arg /\ last.source = "llama-stylist"

\* C18: on the full-success route of enrich_style the returned metadata has
\* enrichedBy = llama-stylist and targetStyle = the requested style, every other
\* metadata key of the backend's document keeps its value, and no other
\* top-level field of the validated document is changed.
C18_MetadataMerge ==
  (op = "enrich_style" /\ Returned /\ tag = "none") =>
    /\ result.metadata.kind = "map"
    /\ result.metadata.enrichedBy = "llama-stylist"
    /\ result.metadata.targetStyle = arg
    /\ result.metadata.author = parsed.doc.metadata.author
    /\ [result EXCEPT !.metadata = parsed.doc.metadata] = parsed.doc

C18_Witness ==
  /\ op = "enrich_style" /\ Returned /\ tag = "none"
  /\ parsed.doc.metadata.author = "remote"
  /\ result.metadata.targetStyle = <<"CyberPunk">>

\* C19: when the client returns its diagnostic payload (the local stub could not
\* recognise the prompt, as for an empty edit text), apply_patch treats it as a
\* failed resolution: the returned document is the deterministic fallback on the
\* original input document, without the payload's error / promptStart keys and
\* without a synthesized id or title.
C19_DiagnosticIsFailure ==
  (op = "apply_patch" /\ Returned /\ response = JsonText(Diagnostic)) =>
    /\ tag \in RouteTags
    /\ result = [safe_patch(base0, arg) EXCEPT !.assumptions = ListAppend(@, <<tag>>)]
    /\ result.error = ABSENT /\ result.promptStart = ABSENT
    /\ result.id # "repaired_<ts>" /\ result.title # "Repaired Dream"

\* C20: prompt round trip.  When the client answers a resolver's prompt from the
\* local stub, the stub recovers exactly the request's document as the base and
\* exactly the edit text (style name) as the instruction, so its output is the
\* text of safe_patch(d, e) (apply_style(d, s)) and is the same for every options
\* value.
C20_PromptRoundTrip ==
  (op \in Resolvers /\ backend = LocalBackend /\ pc = "parse") =>
    LET marker == IF op = "apply_patch" THEN "Edit Instruction:" ELSE "Requested Style:"
        expected == IF op = "apply_patch" THEN safe_patch(base, arg)
                    ELSE apply_style(base, arg)
    IN  /\ BaseMatch(prompt) = Some(base)
        /\ InstructionMatch(prompt, marker) = [some |-> TRUE, text |-> arg]
        /\ response = JsonText(expected)
        /\ \A o \in OptionChoices :
             response = _local_stub_from_prompt(
                          IF op = "apply_patch" THEN build_patch_prompt(base, arg, o)
                          ELSE build_style_prompt(base, arg, o))

\* the parts of a returned document that the text-edit rules write, the position
\* of an inserted structure left out
Templates(l) == [i \in 1..Len(Items(l)) |-> Items(l)[i].template]
RuleEffects(d) == [entities |-> d.entities, environment |-> d.environment,
                   structures |-> Templates(d.structures)]

\* C21: the fixed-position variant safe_patch and the randomized variant
\* stub_apply_patch fire the same rules on every edit text: either one appends a
\* crystal_tower structure when the text contains "add" and "tower", multiplies
\* every entity's params.speed by 0.7 (floored at 0.01) when the text contains
\* slower, calm or gentle, and they differ only in the inserted structure's position.
C21_VariantsAgree ==
  (op \in {"safe_patch", "stub_apply_patch"} /\ Returned) =>
    LET edit == LowerText(arg)
        prev == CoerceList(base0.entities)
    IN  /\ (HasWord(edit, "add") /\ HasWord(edit, "tower")) =>
             \E i \in 1..Len(Items(result.structures)) :
                Items(result.structures)[i].template = "crystal_tower"
        /\ (HasWord(edit, "slower") \/ HasWord(edit, "calm") \/ HasWord(edit, "gentle")) =>
             /\ Len(Items(result.entities)) = Len(prev.items)
             /\ \A i \in 1..Len(prev.items) :
                  LET s == IF ParamsOf(prev.items[i]).speed = NoNum THEN 100
                           ELSE ParamsOf(prev.items[i]).speed
                  IN  Items(result.entities)[i].params.speed
                        = (IF (s * 7) \div 10 > 1 THEN (s * 7) \div 10 ELSE 1)
        /\ (op = "safe_patch" /\ base0.entities.kind = "list"
               /\ base0.structures.kind = "list" /\ ~StubPatchRaises(base0, arg)) =>
             \A rnd \in RandomDraws :
                RuleEffects(result) = RuleEffects(stub_apply_patch(base0, arg, rnd))

\* params.speed of an entity, 1.0 when absent
SpeedOf(e) == IF ParamsOf(e).speed = NoNum THEN 100 ELSE ParamsOf(e).speed

MentionsFaster(e) ==
  HasWord(e, "faster") \/ HasPhrase(e, "speed", "up") \/ HasWord(e, "quick")

C23_StyleTwice ==
  (op = "apply_style" /\ Returned) =>
    /\ \A i \in 1..Len(Items(result.entities)) : Items(result.entities)[i].params.glow <= 100
    /\ rounds >= 1 =>
         /\ result.environment = base0.environment
         /\ Len(Items(result.entities)) = Len(Items(base0.entities))
         /\ \A i \in 1..Len(Items(base0.entities)) :
              LET first == Items(base0.entities)[i].params
                  second == Items(result.entities)[i].params
              IN  /\ second.color = first.color
                  /\ second.speed = first.speed
                  /\ get_style_config(arg).entityDefaults.glow < 100 =>
                       second.glow <= first.glow

\* C23 as amended: the same, the glow comparison holding for every entity whose
\* glow after the first application is not negative.
C23_StyleTwiceNonNegative ==
  (op = "apply_style" /\ Returned) =>
    /\ \A i \in 1..Len(Items(result.entities)) : Items(result.entities)[i].params.glow <= 100
    /\ rounds >= 1 =>
         /\ result.environment = base0.environment
         /\ Len(Items(result.entities)) = Len(Items(base0.entities))
         /\ \A i \in 1..Len(Items(base0.entities)) :
              LET first == Items(base0.entities)[i].params
                  second == Items(result.entities)[i].params
              IN  /\ second.color = first.color
                  /\ second.speed = first.speed
                  /\ (get_style_config(arg).entityDefaults.glow < 100 /\ first.glow >= 0) =>
                       second.glow <= first.glow

\* a second application under a multiplier below 1.0 that lowers a glow again
C23_Witness ==
  /\ op = "apply_style" /\ Returned /\ rounds >= 1
  /\ get_style_config(arg).entityDefaults.glow < 100
  /\ \E i \in 1..Len(Items(base0.entities)) :
       Items(result.entities)[i].params.glow < Items(base0.entities)[i].params.glow

\* C24: for every document and every edit text containing exactly one colour
\* keyword k, safe_patch returns a document in which every entity's params.color
\* and environment.skyColor are the hex value of k, and whose appended summary
\* assumption records color:k.
C24_OneColour ==
  (op = "safe_patch" /\ pc # "call" /\ Len(ColorHits(LowerText(arg))) = 1) =>
    LET k == ColorHits(LowerText(arg))[1]
        notes == Items(result.assumptions)
    IN  /\ Returned
        /\ \A i \in 1..Len(Items(result.entities)) :
             Items(result.entities)[i].params.color = color_map(k)
        /\ result.environment.skyColor = color_map(k)
        /\ notes # <<>>
        /\ \E j \in 1..(Len(notes[Len(notes)]) - 1) :
             notes[Len(notes)][j] = "color:" /\ notes[Len(notes)][j + 1] = k

\* the first element of choices, when choices is a non-empty list
FirstChoice(b) ==
  IF b.choices.kind = "list" /\ Len(b.choices.items) > 0 THEN b.choices.items[1]
  ELSE [kind |-> "none", message |-> [kind |-> "absent", content |-> AbsentText],
        text |-> AbsentText, str |-> <<>>]

\* choices[0].message.content is there: message is a mapping with a non-empty content
HasContent(c) == c.kind = "map" /\ c.message.kind = "map" /\ c.message.content \notin {AbsentText, <<>>}
HasChoiceText(c) == c.kind = "map" /\ c.text \notin {AbsentText, <<>>}

\* C25: _call_remote maps a response body to text by the first matching shape, in
\* the order text field, output field, choices[0].message.content, choices[0].text,
\* choices[0] as a bare string, else the stringified response; a body that is not
\* JSON is returned as raw text; a higher-priority shape wins over any lower one.
C25_ShapePriority ==
  (op = "_call_remote" /\ pc # "call") =>
    LET b == backend.body
        c == FirstChoice(b)
    IN  /\ Returned
        /\ response.raw =
             (IF ~b.json THEN b.raw
              ELSE IF b.kind = "map" /\ b.text # AbsentText THEN b.text
              ELSE IF b.kind = "map" /\ b.output # AbsentText THEN b.output
              ELSE IF b.kind = "map" /\ HasContent(c) THEN c.message.content
              ELSE IF b.kind = "map" /\ HasChoiceText(c) THEN c.text
              ELSE IF b.kind = "map" /\ c.kind = "str" THEN c.str
              ELSE IF b.kind = "map" THEN <<"<json.dumps(data)>">>
              ELSE <<"<str(data)>">>)

\* repair_dream has to synthesize the shots of cinematography c
ShotsSynthesized(c) == c.kind # "map" \/ c.shots.kind # "list" \/ c.shots.items = <<>>

\* what C26 says of the repair of document d into document r
ShotsMatchDuration(d, r) ==
  LET shots == r.cinematography.shots IN
  IF ShotsSynthesized(d.cinematography)
  THEN /\ shots.kind = "list" /\ Len(shots.items) = 1
       /\ shots.items[1].kind = "map" /\ shots.items[1].type = "establish"
       /\ shots.items[1].duration = r.cinematography.durationSec
       /\ SumDurations(shots.items) = r.cinematography.durationSec
  ELSE shots = d.cinematography.shots

\* C26: whenever repair_dream returns a document whose cinematography.shots it
\* synthesized, shots is a single establish shot whose duration is the returned
\* durationSec; a non-empty shots sequence already present is returned unchanged.
\* This holds for repair_dream called directly and for the repair inside
\* apply_patch and enrich_style.
C26_SynthesizedShots ==
  /\ (op = "repair_dream" /\ Returned) => ShotsMatchDuration(base0, result)
  /\ (op \in Resolvers /\ Returned
        /\ tag \in {"auto-repaired after validation errors", "repaired_enriched_result"}) =>
       ShotsMatchDuration(parsed.doc, result)

\* a shot synthesized into an existing cinematography whose durationSec is not the default
C26_Witness ==
  /\ op = "repair_dream" /\ Returned
  /\ base0.cinematography.kind = "map"
  /\ base0.cinematography.durationSec \notin {NoNum, DefaultDuration}
  /\ ShotsSynthesized(base0.cinematography)
  /\ result.cinematography.shots.items[1].duration = base0.cinematography.durationSec

====
